---- MODULE Spec2Model ----
(***************************************************************************)
(* ArtificialImproviser: the note recorder (note_collection.py), the       *)
(* capture loop that drives it (main.py) and the generation/playback       *)
(* worker threads the loop launches (main.py, generative_agent.py).  The   *)
(* agent's generate_phrase, crossover and play_phrase are also followed    *)
(* on their own, call by call (SpecGen, SpecCross, SpecPlay), as are       *)
(* select_notes, set_hotness, note_similarity and on_phrase_end.            *)
(*                                                                         *)
(* Time is counted in units of 0.0001 s (the recorder's POINT_INTERVAL of  *)
(* 0.0002 s is 2 units).  Trajectory coordinates, which the program keeps  *)
(* as floats in [0,1], are counted in tenths (0..10).  Similarity,         *)
(* cohesion and hotness are fixed-point numbers with ONE standing for 1.0; *)
(* divisions round down.                                                   *)
(***************************************************************************)
EXTENDS Integers, Sequences, FiniteSets, TLC

VARIABLES
    \* NoteRecorder fields
    notes, current_note, last_record_time, pause_start_time, pause_triggered,
    phrase_num, last_phrase_ended, enable_agent,
    \* GenerativeAgent field
    hotness,
    \* main.py: module globals and the capture thread's position
    now, previous_active_fingers, agent_is_playing, main_phrase_num, mainpc,
    workers,
    \* locals of the last end_phrase call, kept for inspection
    phrase_cohesion, assigned_any, sealed,
    \* history: counters of calls, closures and launches
    calls, closures, episode_closures, launched,
    \* history: what the pending phrase-end signal looked like when raised
    lpe_len, lpe_busy,
    \* history: a worker was launched and no start_note has happened since
    awaiting, closed_awaiting,
    \* history: the recorder method called last
    last_call,
    \* GenerativeAgent calls in progress: generate_phrase, crossover and
    \* play_phrase, each with its locals
    gen, cx, play,
    \* single calls followed on their own: select_notes, set_hotness and
    \* note_similarity, each with its arguments and its locals
    sel, sh, sim,
    \* GenerativeAgent.on_phrase_end followed on its own
    ope

rec_vars == <<notes, current_note, last_record_time, pause_start_time,
              pause_triggered, phrase_num, last_phrase_ended, enable_agent, hotness>>
main_vars == <<now, previous_active_fingers, agent_is_playing, main_phrase_num,
               mainpc, workers>>
hist_vars == <<phrase_cohesion, assigned_any, sealed, calls, closures,
               episode_closures, launched, lpe_len, lpe_busy, awaiting, closed_awaiting,
               last_call>>
agent_vars == <<gen, cx, play, sel, sh, sim, ope>>
vars == <<rec_vars, main_vars, hist_vars, agent_vars>>

-----------------------------------------------------------------------------
(* Program constants *)

\* Python's None, and a dict key that is absent (times, phrase numbers and
\* durations are never negative)
None == -1
\* NoteRecorder.POINT_INTERVAL = 0.0002 s
POINT_INTERVAL == 2
\* NoteRecorder.PAUSE_PHRASE_THRESHOLD = 3.0 s
PAUSE_PHRASE_THRESHOLD == 30000
\* NoteRecorder.LAST_NOTE_PAUSE = 3.0 s
LAST_NOTE_PAUSE == 30000
\* save_current_note keeps a note only if duration >= 0.1 s
MIN_NOTE_DURATION == 1000
\* fixed-point 1.0
ONE == 1000
\* GenerativeAgent.POINT_INTERVAL = 0.02 s
AGENT_POINT_INTERVAL == 200

(* Bounds of the model *)

\* recorder calls made by the recorder's driver (SpecRec)
MaxCalls == 8
\* set_hotness calls followed (SpecHot)
MaxSetCalls == 8
\* frames processed by the capture loop (Spec)
MaxFrames == 7
\* worker threads launched in one run (Spec)
MaxLaunches == 2
\* last timestamp of the pause calls of the scenario (SpecScenario)
ScenarioEnd == 70000

(* Inputs *)

\* time since the previous call or frame, per kind of call: a new note starts
\* 0.1 s later; a sample comes too early (below POINT_INTERVAL) or 0.1 s
\* later; a pause tick comes right away or a whole threshold later
StartDeltas == {1000}
RecordDeltas == {1, 1000}
PauseDeltas == {1, 30000}
FinalizeDeltas == {1}
\* finger sets the hand tracker reports (FINGER_NUMBERS 1..4)
FingerInputs == {{1}, {1, 2}}
\* (x, y, z, angle, velocity) samples, in tenths
FirstPoint == <<0, 0, 0, 0, 0>>
PointInputs == {<<0, 0, 0, 0, 0>>, <<5, 0, 0, 0, 0>>}

\* no generate_phrase, crossover or play_phrase call in progress
NoGeneration == [pc |-> "idle"]
NoCrossover == [pc |-> "idle"]
NoPlayback == [pc |-> "idle"]
NoSelection == [pc |-> "idle"]
NoSetting == [pc |-> "idle"]
NoComparison == [pc |-> "idle"]
NoPhraseEnd == [pc |-> "idle"]

-----------------------------------------------------------------------------
(* Notes *)

NoNote ==
    [fingers |-> {}, start_time |-> None, data_points |-> <<>>, timestamps |-> <<>>,
     source |-> "none", duration |-> None, pause_after |-> None, phrase |-> None]

NewNoteAi(fingers, p, t) ==
    [fingers |-> fingers, start_time |-> t,
     data_points |-> <<<<p[1], p[2], p[3], p[4], p[5], 0>>>>,
     timestamps |-> <<t>>, source |-> "ai",
     duration |-> None, pause_after |-> None, phrase |-> None]
\* the dict start_note builds
NewNote(fingers, p, t) ==
    [fingers |-> fingers, start_time |-> t,
     data_points |-> <<<<p[1], p[2], p[3], p[4], p[5], 0>>>>,
     timestamps |-> <<t>>, source |-> "human",
     duration |-> None, pause_after |-> None, phrase |-> None]

Max(a, b) == IF a >= b THEN a ELSE b
Min(a, b) == IF a <= b THEN a ELSE b
Last(s) == s[Len(s)]

\* the duration save_current_note stamps
NoteDuration(cn) == Last(cn.timestamps) - cn.start_time

KeepsNoteAlways(cn) == TRUE
KeepsNoteStarted(cn) == NoteDuration(cn) >= 0
\* save_current_note's test for appending the note
KeepsNote(cn) == NoteDuration(cn) >= MIN_NOTE_DURATION

\* notes list after save_current_note
Saved(ns, cn) ==
    IF cn = NoNote THEN ns
    ELSE IF KeepsNote(cn)
         THEN Append(ns, [cn EXCEPT !.duration = NoteDuration(cn),
                                    !.pause_after = IF cn.pause_after = None THEN 0 ELSE @])
         ELSE ns

BackFilledAlways(ns, t) ==
    IF ns # <<>> /\ Last(ns).timestamps # <<>>
    THEN [ns EXCEPT ![Len(ns)].pause_after = Max(0, t - Last(Last(ns).timestamps))]
    ELSE ns
BackFilledFromStart(ns, t) ==
    IF ns # <<>> /\ Last(ns).timestamps # <<>> /\ Last(ns).pause_after = 0
    THEN [ns EXCEPT ![Len(ns)].pause_after = Max(0, t - Last(ns).start_time)]
    ELSE ns
\* start_note's back-fill of the last saved note's pause_after
BackFilled(ns, t) ==
    IF ns # <<>> /\ Last(ns).timestamps # <<>> /\ Last(ns).pause_after = 0
    THEN [ns EXCEPT ![Len(ns)].pause_after = Max(0, t - Last(Last(ns).timestamps))]
    ELSE ns

-----------------------------------------------------------------------------
(* note_similarity *)

RECURSIVE SqrtSearch(_, _, _)
SqrtSearch(n, lo, hi) ==
    IF lo >= hi THEN lo
    ELSE LET mid == (lo + hi + 1) \div 2
         IN IF mid * mid <= n THEN SqrtSearch(n, mid, hi) ELSE SqrtSearch(n, lo, mid - 1)
\* floor of the square root
ISqrt(n) == SqrtSearch(n, 0, Min(n, 46340))

\* np.diff(traj, axis=0)[i], on the 5 parameters (time excluded)
Step(dp, i) == [k \in 1..5 |-> dp[i + 1][k] - dp[i][k]]
SumSq(v) == v[1] * v[1] + v[2] * v[2] + v[3] * v[3] + v[4] * v[4] + v[5] * v[5]
Dot(u, v) == u[1] * v[1] + u[2] * v[2] + u[3] * v[3] + u[4] * v[4] + u[5] * v[5]

RECURSIVE PathFrom(_, _)
PathFrom(dp, i) ==
    IF i >= Len(dp) THEN 0 ELSE ISqrt(SumSq(Step(dp, i)) * 10000) + PathFrom(dp, i + 1)
\* path_length: sum of the step norms (in 1/1000 of the coordinate range)
PathLength(dp) == PathFrom(dp, 1)

RECURSIVE StepSumFrom(_, _)
StepSumFrom(dp, i) ==
    IF i >= Len(dp) THEN [k \in 1..5 |-> 0]
    ELSE LET s == Step(dp, i)
             r == StepSumFrom(dp, i + 1)
         IN [k \in 1..5 |-> s[k] + r[k]]
\* the sum of the steps: np.mean(directions) times the number of steps, a
\* positive factor that the norm test and the cosine do not see
StepSum(dp) == StepSumFrom(dp, 1)

FingerSim(f1, f2) ==
    IF f1 # {} /\ f2 # {}
    THEN (Cardinality(f1 \cap f2) * ONE) \div Cardinality(f1 \cup f2)
    ELSE 0

PathRatio(dp1, dp2) ==
    LET p1 == PathLength(dp1)
        p2 == PathLength(dp2)
    IN IF p1 > 0 /\ p2 > 0 THEN (Min(p1, p2) * ONE) \div Max(p1, p2) ELSE 0

DirectionSim(dp1, dp2) ==
    LET d1 == StepSum(dp1)
        d2 == StepSum(dp2)
    IN IF Len(dp1) >= 2 /\ Len(dp2) >= 2 /\ SumSq(d1) > 0 /\ SumSq(d2) > 0
       THEN LET cos == (Dot(d1, d2) * ONE * 100) \div ISqrt(SumSq(d1) * SumSq(d2) * 10000)
            IN (cos + ONE) \div 2
       ELSE 0

\* 0.3 * finger_sim + 0.3 * path_ratio + 0.4 * direction_sim
Similarity(n1, n2) ==
    (3 * FingerSim(n1.fingers, n2.fingers)
       + 3 * PathRatio(n1.data_points, n2.data_points)
       + 4 * DirectionSim(n1.data_points, n2.data_points)) \div 10

RECURSIVE SimSum(_, _, _)
SimSum(ns, i, j) == IF i >= j THEN 0 ELSE Similarity(ns[i], ns[i + 1]) + SimSum(ns, i + 1, j)

\* mean similarity of the consecutive pairs of ns[lo..hi], 0.0 without a pair
MeanSimilarity(ns, lo, hi) ==
    IF hi - lo >= 1 THEN SimSum(ns, lo, hi) \div (hi - lo) ELSE 0

\* end_phrase: np.mean(similarities) if similarities else 0.0
PhraseCohesion(ns) == MeanSimilarity(ns, 1, Len(ns))

\* end_phrase: max(0.0, min(1.0, 2 * (0.8 - phrase_cohesion)))
HotnessOf(cohesion) == Max(0, Min(ONE, 2 * ((8 * ONE) \div 10 - cohesion)))

ClampedAbove(h) == Min(ONE, h)
\* GenerativeAgent.set_hotness: max(0.0, min(1.0, hotness))
Clamped(h) == Max(0, Min(ONE, h))

-----------------------------------------------------------------------------
(* end_phrase *)

Untagged(ns) == {i \in DOMAIN ns : ns[i].phrase = None}

TaggedAll(ns, pn) == [i \in DOMAIN ns |-> [ns[i] EXCEPT !.phrase = pn]]
\* the tagging loop: every note without a phrase gets the current number
Tagged(ns, pn) ==
    [i \in DOMAIN ns |-> IF ns[i].phrase = None THEN [ns[i] EXCEPT !.phrase = pn] ELSE ns[i]]

\* the last note's pause_after is set to LAST_NOTE_PAUSE
Sealed(ns, pn) ==
    LET tg == Tagged(ns, pn)
    IN IF tg # <<>> THEN [tg EXCEPT ![Len(tg)].pause_after = LAST_NOTE_PAUSE] ELSE tg

AdvancedAlways(pn, assigned) == pn + 1
AdvancedTwice(pn, assigned) == IF assigned THEN pn + 2 ELSE pn
\* phrase_num after the closure
Advanced(pn, assigned) == IF assigned THEN pn + 1 ELSE pn

\* end_phrase(timestamp) on the notes list ns; the caller sets pause_triggered
EndPhrase(ns) ==
    /\ notes' = Sealed(ns, phrase_num)
    /\ assigned_any' = (Untagged(ns) # {})
    /\ sealed' = Untagged(ns)
    /\ phrase_cohesion' = PhraseCohesion(Sealed(ns, phrase_num))
    /\ hotness' = IF enable_agent
                  THEN Clamped(HotnessOf(PhraseCohesion(Sealed(ns, phrase_num))))
                  ELSE hotness
    /\ phrase_num' = Advanced(phrase_num, Untagged(ns) # {})
    /\ pause_start_time' = None
    /\ last_phrase_ended' = phrase_num
    /\ closures' = closures + 1
    /\ episode_closures' = episode_closures + 1
    /\ lpe_len' = Len(ns)
    /\ lpe_busy' = agent_is_playing
    /\ closed_awaiting' = awaiting

NoClosure ==
    UNCHANGED <<phrase_num, last_phrase_ended, hotness, phrase_cohesion, assigned_any,
                sealed, closures, episode_closures, lpe_len, lpe_busy, closed_awaiting>>

-----------------------------------------------------------------------------
(* NoteRecorder methods, each call whole *)

StartNote(fingers, p, t) ==
    /\ notes' = BackFilled(Saved(notes, current_note), t)
    /\ pause_start_time' = None
    /\ pause_triggered' = FALSE
    /\ current_note' = NewNote(fingers, p, t)
    /\ last_record_time' = t
    /\ episode_closures' = 0
    /\ awaiting' = FALSE
    /\ closed_awaiting' = FALSE
    /\ last_call' = "start_note"
    /\ UNCHANGED <<phrase_num, last_phrase_ended, enable_agent, hotness, phrase_cohesion,
                   assigned_any, sealed, closures, lpe_len, lpe_busy>>

AcceptsOpen(t) == current_note # NoNote
\* record_point's test for storing the sample
Accepts(t) == current_note # NoNote /\ t - last_record_time >= POINT_INTERVAL

RelativeTimeSinceLast(t) == t - last_record_time
\* record_point line 42: relative_time
RelativeTime(t) == t - current_note.start_time

RecordPoint(p, t) ==
    /\ IF Accepts(t)
       THEN /\ current_note' =
                 [current_note EXCEPT
                    !.data_points = Append(@, <<p[1], p[2], p[3], p[4], p[5],
                                                RelativeTime(t)>>),
                    !.timestamps = Append(@, t)]
            /\ last_record_time' = t
       ELSE UNCHANGED <<current_note, last_record_time>>
    /\ last_call' = "record_point"
    /\ UNCHANGED <<notes, pause_start_time, pause_triggered, phrase_num, last_phrase_ended,
                   enable_agent, hotness, phrase_cohesion, assigned_any, sealed, closures,
                   episode_closures, lpe_len, lpe_busy, awaiting, closed_awaiting>>

\* pause's test for closing the phrase
Closes(t) == t - pause_start_time >= PAUSE_PHRASE_THRESHOLD /\ ~pause_triggered

Pause(t) ==
    /\ current_note' = NoNote
    /\ IF pause_start_time = None
       THEN /\ pause_start_time' = t
            /\ pause_triggered' = FALSE
            /\ notes' = Saved(notes, current_note)
            /\ NoClosure
       ELSE IF Closes(t)
            THEN /\ EndPhrase(Saved(notes, current_note))
                 /\ pause_triggered' = TRUE
            ELSE /\ notes' = Saved(notes, current_note)
                 /\ UNCHANGED <<pause_start_time, pause_triggered>>
                 /\ NoClosure
    /\ last_call' = "pause"
    /\ UNCHANGED <<last_record_time, enable_agent, awaiting>>

\* finalize lines 123-127: every note but the last whose pause_after is 0
\* gets the gap up to the next note's start
FinalBackFilled(ns) ==
    [i \in DOMAIN ns |->
        IF i < Len(ns) /\ ns[i].pause_after = 0
        THEN [ns[i] EXCEPT !.pause_after = ns[i + 1].start_time - Last(ns[i].timestamps)]
        ELSE ns[i]]

\* finalize(current_time); the argument is not used, and every saved note
\* has a source already
Finalize(t) ==
    /\ notes' = FinalBackFilled(Saved(notes, current_note))
    /\ current_note' = NoNote
    /\ NoClosure
    /\ last_call' = "finalize"
    /\ UNCHANGED <<last_record_time, pause_start_time, pause_triggered, enable_agent,
                   awaiting>>

-----------------------------------------------------------------------------
(* The recorder alone, driven by any sequence of calls with increasing       *)
(* timestamps (NoteRecorder() without an agent)                              *)

InitRecorder ==
    /\ notes = <<>>
    /\ current_note = NoNote
    /\ last_record_time = None
    /\ pause_start_time = None
    /\ pause_triggered = FALSE
    /\ phrase_num = 1
    /\ last_phrase_ended = None
    /\ hotness = 0

InitHistory ==
    /\ phrase_cohesion = 0
    /\ assigned_any = FALSE
    /\ sealed = {}
    /\ calls = 0
    /\ closures = 0
    /\ episode_closures = 0
    /\ launched = 0
    /\ lpe_len = 0
    /\ lpe_busy = FALSE
    /\ awaiting = FALSE
    /\ closed_awaiting = FALSE
    /\ last_call = "none"

InitMain ==
    /\ now = 0
    /\ previous_active_fingers = {}
    /\ agent_is_playing = FALSE
    /\ main_phrase_num = None
    /\ mainpc = "frame"
    /\ workers = <<>>

\* no GenerativeAgent call of its own in progress
InitCallsIdle ==
    /\ sel = NoSelection
    /\ sh = NoSetting
    /\ sim = NoComparison
    /\ ope = NoPhraseEnd

InitAgentIdle ==
    /\ gen = NoGeneration
    /\ cx = NoCrossover
    /\ play = NoPlayback
    /\ InitCallsIdle

InitRec ==
    /\ InitRecorder
    /\ InitHistory
    /\ InitMain
    /\ InitAgentIdle
    /\ enable_agent = FALSE

\* one more call of the driver; finalize is the last call of a session
Tick(dt) ==
    /\ calls < MaxCalls
    /\ last_call # "finalize"
    /\ calls' = calls + 1
    /\ now' = now + dt
    /\ UNCHANGED <<previous_active_fingers, agent_is_playing, main_phrase_num, mainpc,
                   workers, launched, agent_vars>>

RecStartNote ==
    \E dt \in StartDeltas, f \in FingerInputs :
        Tick(dt) /\ StartNote(f, FirstPoint, now + dt)

RecRecordPoint ==
    \E dt \in RecordDeltas, p \in PointInputs :
        Tick(dt) /\ RecordPoint(p, now + dt)

RecPause ==
    \E dt \in PauseDeltas :
        Tick(dt) /\ Pause(now + dt)

RecFinalize ==
    \E dt \in FinalizeDeltas :
        Tick(dt) /\ Finalize(now + dt)

NextRec == RecStartNote \/ RecRecordPoint \/ RecPause \/ RecFinalize

SpecRec == InitRec /\ [][NextRec]_vars

-----------------------------------------------------------------------------
(* main.py: the capture loop.  One frame is: read the camera and the clock,  *)
(* call the recorder (start_note, record_point or pause), then test whether  *)
(* a phrase just ended and launch the worker thread.  pause() is taken in    *)
(* two steps, the test of pause_start_time (line 53) and its use (line 58),  *)
(* because a worker thread writes that field.  pause_triggered is false      *)
(* whenever pause_start_time is set, so reading it together with             *)
(* pause_start_time loses no interleaving.                                   *)

\* frames: time since the previous frame
FrameDeltas == {1000}
FramePauseDeltas == {1000, 30000}
FrameFingers == {{1}, {2}}
FramePoint == <<5, 5, 0, 0, 0>>

NoWorkerVars ==
    UNCHANGED <<agent_is_playing, main_phrase_num, workers, launched, agent_vars>>

Frame(dt) ==
    /\ mainpc = "frame"
    /\ calls < MaxFrames
    /\ calls' = calls + 1
    /\ now' = now + dt

\* lines 219-222: no hand in the picture, the recorder is not called and the
\* phrase-end test is not made
FrameNoHands ==
    \E dt \in FrameDeltas :
        /\ Frame(dt)
        /\ UNCHANGED <<rec_vars, previous_active_fingers, agent_is_playing,
                       main_phrase_num, mainpc, workers>>
        /\ UNCHANGED <<phrase_cohesion, assigned_any, sealed, closures, episode_closures,
                       launched, lpe_len, lpe_busy, awaiting, closed_awaiting, last_call,
                       agent_vars>>

\* lines 150-154: fingers pinched and changed
FrameStartNote ==
    \E dt \in FrameDeltas, f \in FrameFingers :
        /\ f # previous_active_fingers
        /\ Frame(dt)
        /\ StartNote(f, FramePoint, now + dt)
        /\ previous_active_fingers' = f
        /\ mainpc' = "check"
        /\ NoWorkerVars

\* lines 155-158: the same fingers still pinched
FrameRecordPoint ==
    \E dt \in FrameDeltas :
        /\ previous_active_fingers # {}
        /\ Frame(dt)
        /\ RecordPoint(FramePoint, now + dt)
        /\ UNCHANGED previous_active_fingers
        /\ mainpc' = "check"
        /\ NoWorkerVars

\* lines 159-161 and pause() lines 49-56
FramePauseEnter ==
    \E dt \in FramePauseDeltas :
        /\ Frame(dt)
        /\ current_note' = NoNote
        /\ notes' = Saved(notes, current_note)
        /\ IF pause_start_time = None
           THEN /\ pause_start_time' = now + dt
                /\ pause_triggered' = FALSE
                /\ mainpc' = "check"
           ELSE /\ UNCHANGED <<pause_start_time, pause_triggered>>
                /\ mainpc' = "p58"
        /\ previous_active_fingers' = {}
        /\ NoClosure
        /\ NoWorkerVars
        /\ last_call' = "pause"
        /\ UNCHANGED <<last_record_time, enable_agent, awaiting>>

\* pause() lines 58-61: timestamp - self.pause_start_time raises TypeError
\* when a worker has reset pause_start_time since line 53; nothing catches it
PauseElapsed ==
    /\ mainpc = "p58"
    /\ IF pause_start_time = None
       THEN /\ mainpc' = "crashed"
            /\ UNCHANGED <<notes, pause_start_time, pause_triggered>>
            /\ NoClosure
       ELSE /\ mainpc' = "check"
            /\ IF Closes(now)
               THEN /\ EndPhrase(notes)
                    /\ pause_triggered' = TRUE
               ELSE /\ UNCHANGED <<notes, pause_start_time, pause_triggered>>
                    /\ NoClosure
    /\ NoWorkerVars
    /\ UNCHANGED <<current_note, last_record_time, enable_agent, awaiting, now,
                   previous_active_fingers, calls, last_call>>

\* a thread created by threading.Thread(target=run_agent_in_background)
NewWorker ==
    [pc |-> "started", phrase |-> None, valid |-> None, todo |-> 0, made |-> 0,
     parents |-> {}, pe_len |-> lpe_len, stale |-> lpe_busy]

\* line 166: the is-playing guard of the launch
GuardOpen == ~agent_is_playing

\* lines 166-188: the phrase-end test and the launch
LaunchCheck ==
    /\ mainpc = "check"
    /\ mainpc' = "frame"
    /\ IF last_phrase_ended # None /\ GuardOpen
       THEN /\ launched < MaxLaunches
            /\ launched' = launched + 1
            /\ main_phrase_num' = last_phrase_ended
            /\ workers' = Append(workers, NewWorker)
            /\ last_phrase_ended' = None
            /\ awaiting' = TRUE
       ELSE UNCHANGED <<launched, main_phrase_num, workers, last_phrase_ended, awaiting>>
    /\ UNCHANGED <<closed_awaiting, notes, current_note, last_record_time, pause_start_time,
                   pause_triggered, phrase_num, enable_agent, hotness, now,
                   previous_active_fingers, agent_is_playing, phrase_cohesion,
                   assigned_any, sealed, calls, closures, episode_closures, lpe_len,
                   lpe_busy, last_call, agent_vars>>

-----------------------------------------------------------------------------
(* The worker thread: run_agent_in_background and GenerativeAgent.on_phrase_end *)

Running == mainpc # "crashed"

OnlyWorker(w, wr) ==
    /\ workers' = [workers EXCEPT ![w] = wr]
    /\ UNCHANGED <<rec_vars, now, previous_active_fingers, agent_is_playing,
                   main_phrase_num, mainpc, hist_vars, agent_vars>>

\* line 173
WorkerBegin ==
    \E w \in DOMAIN workers :
        /\ Running
        /\ workers[w].pc = "started"
        /\ agent_is_playing' = TRUE
        /\ workers' = [workers EXCEPT ![w].pc = "generate"]
        /\ UNCHANGED <<rec_vars, now, previous_active_fingers, main_phrase_num, mainpc,
                       hist_vars, agent_vars>>

\* generate_phrase line 294: max(1, int(n + u * n / 2)) for u in [-1, 1)
GenCounts(n) == {Max(1, k) : k \in (n \div 2)..((3 * n - 1) \div 2)}

\* generate_phrase line 275: the notes of the phrase that ended
PhraseNotes(ns, pn) == {i \in DOMAIN ns : ns[i].phrase = pn}

\* line 175 (the arguments: the recorder's list itself and the global
\* phrase_num), on_phrase_end lines 379-396, generate_phrase lines 275-296
WorkerGenerate ==
    \E w \in DOMAIN workers :
        /\ Running
        /\ workers[w].pc = "generate"
        /\ IF notes = <<>> \/ PhraseNotes(notes, main_phrase_num) = {}
           THEN OnlyWorker(w, [workers[w] EXCEPT !.pc = "finally",
                                                 !.phrase = main_phrase_num])
           ELSE \E k \in GenCounts(Cardinality(PhraseNotes(notes, main_phrase_num))) :
                    OnlyWorker(w, [workers[w] EXCEPT !.pc = "select",
                                                     !.phrase = main_phrase_num,
                                                     !.valid = Len(notes),
                                                     !.todo = k])

SelectPoolLive(wr) == DOMAIN notes
\* generate_phrase line 285: valid_notes, the list the parents are drawn from
SelectPool(wr) == 1..wr.valid

\* select_notes: the pairs it can return (one note: that note twice)
SelectPairs(pool) == pool \X pool

\* generate_phrase lines 299-311: one selection and crossover
WorkerSelect ==
    \E w \in DOMAIN workers :
        /\ Running
        /\ workers[w].pc = "select"
        /\ workers[w].todo > 0
        /\ \E pr \in SelectPairs(SelectPool(workers[w])) :
               OnlyWorker(w, [workers[w] EXCEPT !.todo = @ - 1,
                                                 !.made = @ + 1,
                                                 !.parents = @ \cup {pr[1], pr[2]}])

\* on_phrase_end lines 398-404: play_phrase, blocking
WorkerPlay ==
    \E w \in DOMAIN workers :
        /\ Running
        /\ workers[w].pc = "select"
        /\ workers[w].todo = 0
        /\ OnlyWorker(w, [workers[w] EXCEPT !.pc = "r409"])

\* on_phrase_end line 409
WorkerReset409 ==
    \E w \in DOMAIN workers :
        /\ Running
        /\ workers[w].pc = "r409"
        /\ pause_start_time' = None
        /\ workers' = [workers EXCEPT ![w].pc = "r410"]
        /\ UNCHANGED <<notes, current_note, last_record_time, pause_triggered, phrase_num,
                       last_phrase_ended, enable_agent, hotness, now,
                       previous_active_fingers, agent_is_playing, main_phrase_num, mainpc,
                       hist_vars, agent_vars>>

\* on_phrase_end line 410
WorkerReset410 ==
    \E w \in DOMAIN workers :
        /\ Running
        /\ workers[w].pc = "r410"
        /\ pause_triggered' = FALSE
        /\ workers' = [workers EXCEPT ![w].pc = "finally"]
        /\ UNCHANGED <<notes, current_note, last_record_time, pause_start_time, phrase_num,
                       last_phrase_ended, enable_agent, hotness, now,
                       previous_active_fingers, agent_is_playing, main_phrase_num, mainpc,
                       hist_vars, agent_vars>>

Without(s, w) == [i \in 1..(Len(s) - 1) |-> IF i < w THEN s[i] ELSE s[i + 1]]

\* line 182: the thread ends
WorkerFinally ==
    \E w \in DOMAIN workers :
        /\ Running
        /\ workers[w].pc = "finally"
        /\ agent_is_playing' = FALSE
        /\ workers' = Without(workers, w)
        /\ UNCHANGED <<rec_vars, now, previous_active_fingers, main_phrase_num, mainpc,
                       hist_vars, agent_vars>>

Init ==
    /\ InitRecorder
    /\ InitHistory
    /\ InitMain
    /\ InitAgentIdle
    /\ enable_agent = TRUE

Next ==
    \/ FrameNoHands
    \/ FrameStartNote
    \/ FrameRecordPoint
    \/ FramePauseEnter
    \/ PauseElapsed
    \/ LaunchCheck
    \/ WorkerBegin
    \/ WorkerGenerate
    \/ WorkerSelect
    \/ WorkerPlay
    \/ WorkerReset409
    \/ WorkerReset410
    \/ WorkerFinally

Spec == Init /\ [][Next]_vars

\* a started thread is scheduled again and again, and its sends and sleeps
\* return: every step of a worker that stays possible is taken
WorkerFairness ==
    /\ WF_vars(WorkerBegin)
    /\ WF_vars(WorkerGenerate)
    /\ WF_vars(WorkerSelect)
    /\ WF_vars(WorkerPlay)
    /\ WF_vars(WorkerReset409)
    /\ WF_vars(WorkerReset410)
    /\ WF_vars(WorkerFinally)

SpecLive == Init /\ [][Next]_vars /\ WorkerFairness

-----------------------------------------------------------------------------
(* The scenario of the recorder: start_note with fingers [1] at t = 0, then  *)
(* samples 0.01 s apart up to t = 0.49 (50 points in all), then pause()      *)
(* calls, the first at t = 0.50 and the later ones 0.1 s, 0.5 s or 3.0 s     *)
(* apart, for as long as ScenarioEnd allows                                  *)

ScenPoint(k) == <<k % 11, 5, 0, 0, 0>>
ScenPauseDeltas == {1000, 5000, 30000}

ScenTick(dt) ==
    /\ calls' = calls + 1
    /\ now' = now + dt
    /\ UNCHANGED <<previous_active_fingers, agent_is_playing, main_phrase_num, mainpc,
                   workers, launched, agent_vars>>

ScenStart ==
    /\ calls = 0
    /\ ScenTick(0)
    /\ StartNote({1}, ScenPoint(0), 0)

ScenRecord ==
    /\ calls \in 1..49
    /\ ScenTick(100)
    /\ RecordPoint(ScenPoint(calls), now + 100)

ScenPause ==
    /\ calls >= 50
    /\ \E dt \in (IF calls = 50 THEN {100} ELSE ScenPauseDeltas) :
           /\ now + dt <= ScenarioEnd
           /\ ScenTick(dt)
           /\ Pause(now + dt)

NextScenario == ScenStart \/ ScenRecord \/ ScenPause

SpecScenario == InitRec /\ [][NextScenario]_vars

-----------------------------------------------------------------------------
(* GenerativeAgent.generate_phrase and select_notes.  A draw of              *)
(* np.random.random() is a fixed-point number in [0, ONE), the draw of       *)
(* np.random.uniform(-1, 1) one in [-ONE, ONE).  The crossover of a selected *)
(* pair is followed step by step in SpecCross; here only its outcome counts: *)
(* it raises, or it returns a note whose source is "ai".                     *)

\* draws of np.random.random()
Draws == {0, 50, 500, 999}
\* draws of np.random.uniform(-1, 1)
UDraws == {-1000, -750, -150, 0, 300, 999}

\* _mutate: 1 / ((1 - hotness) * 985 + 15) > r
Mutates(h, r) == ONE * ONE > r * ((ONE - h) * 985 + 15 * ONE)

TargetCountRounded(n, u) == Max(1, (2 * ONE * n + u * n + ONE) \div (2 * ONE))
TargetCountWide(n, u) == Max(1, (ONE * n + u * n) \div ONE)
\* generate_phrase lines 293-294: max(1, int(n + u * (n / 2.0)))
TargetCount(n, u) == Max(1, (2 * ONE * n + u * n) \div (2 * ONE))

\* notes of the lists handed to generate_phrase
GenHuman(ph) ==
    [fingers |-> {1}, start_time |-> 0,
     data_points |-> <<<<0, 0, 0, 0, 0, 0>>, <<5, 0, 0, 0, 0, 1000>>>>,
     timestamps |-> <<0, 1000>>, source |-> "human", duration |-> 1000,
     pause_after |-> 1000, phrase |-> ph]
GenAi(ph) == [GenHuman(ph) EXCEPT !.source = "ai"]
GenOnePoint(ph) ==
    [GenHuman(ph) EXCEPT !.data_points = <<<<0, 0, 0, 0, 0, 0>>>>, !.timestamps = <<0>>]
GenNoPoints(ph) == [GenHuman(ph) EXCEPT !.data_points = <<>>, !.timestamps = <<>>]

\* a phrase of 4 human notes that has just ended
FourHumanNotes == <<GenHuman(1), GenHuman(1), GenHuman(1), GenHuman(1)>>

\* <<all_notes, last_phrase_num>>
GenInputs ==
    {<<FourHumanNotes, 1>>,
     <<<<GenHuman(1)>>, 1>>,
     <<<<GenHuman(1), GenHuman(1), GenHuman(2), GenHuman(2), GenHuman(2)>>, 2>>,
     <<<<GenHuman(1), GenHuman(1)>>, 2>>,
     <<<<GenHuman(1), GenAi(None), GenNoPoints(1)>>, 1>>,
     <<<<GenNoPoints(1)>>, 1>>,
     <<<<GenHuman(1), GenOnePoint(1)>>, 1>>}

\* line 285: valid_notes
ValidNotes(ns) == {i \in DOMAIN ns : ns[i].data_points # <<>>}

\* select_single_note for one draw of the mutation gate: the notes it can
\* return (every weight of the human pool is positive)
SelectSingle(ns, pool, h, r) ==
    LET wanted == {i \in pool : ns[i].source = (IF Mutates(h, r) THEN "ai" ELSE "human")}
    IN IF wanted = {} THEN pool ELSE wanted

\* select_notes: the pairs it can return, none for None
SelectNotes(ns, pool, h) ==
    IF pool = {} THEN {}
    ELSE IF Cardinality(pool) = 1 THEN {<<i, i>> : i \in pool}
    ELSE (UNION {SelectSingle(ns, pool, h, r) : r \in Draws})
             \X (UNION {SelectSingle(ns, pool, h, r) : r \in Draws})

\* crossover on a pair: "note" when it can return a note, "raise" when it
\* can raise (a parent of one point is indexed at [1], lines 133 and 135,
\* unless the point is a mutation)
CrossoverOutcomes(n1, n2) ==
    IF Len(n1.data_points) < 2 \/ Len(n2.data_points) < 2
    THEN {"note", "raise"}
    ELSE {"note"}

\* crossover line 170
CrossoverSource == "ai"

InitGen ==
    /\ InitRecorder
    /\ InitHistory
    /\ InitMain
    /\ enable_agent = TRUE
    /\ cx = NoCrossover
    /\ play = NoPlayback
    /\ InitCallsIdle
    /\ \E inp \in GenInputs, h \in {0, ONE} :
           gen = [pc |-> "begin", all_notes |-> inp[1], last_phrase_num |-> inp[2],
                  hotness |-> h, n |-> 0, u |-> 0, target |-> 0, attempts |-> 0,
                  generated |-> <<>>, parents |-> {}, outcomes |-> <<>>]

OnlyGen == UNCHANGED <<rec_vars, main_vars, hist_vars, cx, play, sel, sh, sim, ope>>

\* generate_phrase lines 275-296
GenBegin ==
    /\ gen.pc = "begin"
    /\ LET n == Cardinality(PhraseNotes(gen.all_notes, gen.last_phrase_num))
       IN IF n = 0 \/ ValidNotes(gen.all_notes) = {}
          THEN gen' = [gen EXCEPT !.pc = "done", !.n = n]
          ELSE \E u \in UDraws :
                   gen' = [gen EXCEPT !.pc = "loop", !.n = n, !.u = u,
                                      !.target = TargetCount(n, u)]
    /\ OnlyGen

AttemptRaisedAborts(g) ==
    [g EXCEPT !.pc = "done", !.attempts = @ + 1, !.outcomes = Append(@, "raise")]
\* generate_phrase lines 314-318: crossover raised, on to the next turn
AttemptRaised(g) == [g EXCEPT !.attempts = @ + 1, !.outcomes = Append(@, "raise")]

\* generate_phrase lines 299-318: one turn of the loop (outcomes: what each
\* turn did)
GenAttempt ==
    /\ gen.pc = "loop"
    /\ gen.attempts < gen.target
    /\ LET pairs == SelectNotes(gen.all_notes, ValidNotes(gen.all_notes), gen.hotness)
       IN IF pairs = {}
          THEN gen' = [gen EXCEPT !.pc = "done", !.attempts = @ + 1,
                                  !.outcomes = Append(@, "no pair")]
          ELSE \E pr \in pairs :
                   \E out \in CrossoverOutcomes(gen.all_notes[pr[1]], gen.all_notes[pr[2]]) :
                       gen' = IF out = "raise"
                              THEN AttemptRaised(gen)
                              ELSE [gen EXCEPT
                                      !.attempts = @ + 1,
                                      !.outcomes = Append(@, "note"),
                                      !.generated = Append(@, [source |-> CrossoverSource]),
                                      !.parents = @ \cup {pr[1], pr[2]}]
    /\ OnlyGen

\* generate_phrase line 320
GenReturn ==
    /\ gen.pc = "loop"
    /\ gen.attempts = gen.target
    /\ gen' = [gen EXCEPT !.pc = "done"]
    /\ OnlyGen

NextGen == GenBegin \/ GenAttempt \/ GenReturn

SpecGen == InitGen /\ [][NextGen]_vars

-----------------------------------------------------------------------------
(* GenerativeAgent.select_notes on its own, one step per selection.  A note *)
(* is named by its place in all_notes; the result is the pair of places, or *)
(* <<>> for None.  want1 and want2 are the source select_single_note asked  *)
(* for.                                                                     *)

\* the lists handed to select_notes
SelectInputs ==
    {<<>>,
     <<GenHuman(1)>>,
     <<GenAi(None)>>,
     <<GenHuman(1), GenHuman(2)>>,
     <<GenAi(None), GenAi(None)>>,
     <<GenHuman(1), GenAi(None)>>,
     <<GenAi(None), GenHuman(1), GenHuman(2)>>,
     <<GenHuman(2), GenAi(None), GenAi(None)>>}

\* line 217: use_human = not self._mutate()
Wanted(h, r) == IF Mutates(h, r) THEN "ai" ELSE "human"

SelectFewNone(ns) == <<>>
\* lines 205-213: fewer than two notes
SelectFew(ns) == IF ns = <<>> THEN <<>> ELSE <<1, 1>>

InitSelect ==
    /\ InitRecorder
    /\ InitHistory
    /\ InitMain
    /\ enable_agent = TRUE
    /\ gen = NoGeneration
    /\ cx = NoCrossover
    /\ play = NoPlayback
    /\ sh = NoSetting
    /\ sim = NoComparison
    /\ ope = NoPhraseEnd
    /\ \E ns \in SelectInputs, h \in {0, ONE} :
           sel = [pc |-> "begin", all_notes |-> ns, hotness |-> h, note1 |-> 0,
                  note2 |-> 0, want1 |-> "none", want2 |-> "none", result |-> <<>>]

OnlySelect == UNCHANGED <<rec_vars, main_vars, hist_vars, gen, cx, play, sh, sim, ope>>

\* lines 205-213
SelectBegin ==
    /\ sel.pc = "begin"
    /\ sel' = IF Len(sel.all_notes) < 2
              THEN [sel EXCEPT !.pc = "done", !.result = SelectFew(sel.all_notes)]
              ELSE [sel EXCEPT !.pc = "first"]
    /\ OnlySelect

\* line 250: note1 = select_single_note()
SelectFirst ==
    /\ sel.pc = "first"
    /\ \E r \in Draws :
           \E i \in SelectSingle(sel.all_notes, DOMAIN sel.all_notes, sel.hotness, r) :
               sel' = [sel EXCEPT !.pc = "second", !.note1 = i,
                                  !.want1 = Wanted(sel.hotness, r)]
    /\ OnlySelect

\* line 251: note2 = select_single_note()
SelectSecond ==
    /\ sel.pc = "second"
    /\ \E r \in Draws :
           \E i \in SelectSingle(sel.all_notes, DOMAIN sel.all_notes, sel.hotness, r) :
               sel' = [sel EXCEPT !.pc = "return", !.note2 = i,
                                  !.want2 = Wanted(sel.hotness, r)]
    /\ OnlySelect

\* lines 253-257
SelectReturn ==
    /\ sel.pc = "return"
    /\ sel' = [sel EXCEPT !.pc = "done", !.result = <<sel.note1, sel.note2>>]
    /\ OnlySelect

NextSelect == SelectBegin \/ SelectFirst \/ SelectSecond \/ SelectReturn

SpecSelect == InitSelect /\ [][NextSelect]_vars

-----------------------------------------------------------------------------
(* GenerativeAgent.set_hotness on its own: called with any value, or by     *)
(* end_phrase with the value it derives from the cohesion of the phrase.    *)

\* arguments of set_hotness (ONE is 1.0)
HotnessInputs == {-1500, -1, 0, 1, 250, 500, 999, 1000, 1001, 2500}
\* cohesions of a phrase, a mean of similarities
CohesionInputs == {0, 300, 400, 650, 800, 1000}

InitHot ==
    /\ InitRecorder
    /\ InitHistory
    /\ InitMain
    /\ enable_agent = TRUE
    /\ gen = NoGeneration
    /\ cx = NoCrossover
    /\ play = NoPlayback
    /\ sel = NoSelection
    /\ sim = NoComparison
    /\ ope = NoPhraseEnd
    /\ sh = [pc |-> "ready", caller |-> "none", cohesion |-> None, arg |-> None,
             calls |-> 0]

OnlyHot ==
    UNCHANGED <<notes, current_note, last_record_time, pause_start_time, pause_triggered,
                phrase_num, last_phrase_ended, enable_agent, main_vars, hist_vars,
                gen, cx, play, sel, sim, ope>>

\* set_hotness(v), lines 31-40
SetHotness ==
    /\ sh.pc # "idle"
    /\ sh.calls < MaxSetCalls
    /\ \E v \in HotnessInputs :
           /\ hotness' = Clamped(v)
           /\ sh' = [pc |-> "set", caller |-> "any", cohesion |-> None, arg |-> v,
                     calls |-> sh.calls + 1]
    /\ OnlyHot

\* end_phrase lines 91-94: the hotness of a cohesion, handed to set_hotness
EndPhraseHotness ==
    /\ sh.pc # "idle"
    /\ sh.calls < MaxSetCalls
    /\ \E c \in CohesionInputs :
           /\ hotness' = Clamped(HotnessOf(c))
           /\ sh' = [pc |-> "set", caller |-> "end_phrase", cohesion |-> c,
                     arg |-> HotnessOf(c), calls |-> sh.calls + 1]
    /\ OnlyHot

NextHot == SetHotness \/ EndPhraseHotness

SpecHot == InitHot /\ [][NextHot]_vars

-----------------------------------------------------------------------------
(* NoteRecorder.note_similarity on its own: one call on two notes.          *)

\* points of the trajectories compared (coordinates in tenths, then the time)
SimPoints == {<<0, 0, 0, 0, 0, 0>>, <<5, 0, 0, 0, 0, 0>>, <<5, 5, 0, 0, 0, 0>>}
\* the notes compared: one to three points, one or two fingers or none
SimNotes ==
    [fingers : {{}, {1}, {1, 2}},
     data_points : UNION {[1..k -> SimPoints] : k \in 1..3}]
\* a note every note is also compared with
SimNoteRef == [fingers |-> {1}, data_points |-> <<<<0, 0, 0, 0, 0, 0>>, <<0, 5, 0, 0, 0, 0>>>>]

InitSim ==
    /\ InitRecorder
    /\ InitHistory
    /\ InitMain
    /\ enable_agent = TRUE
    /\ gen = NoGeneration
    /\ cx = NoCrossover
    /\ play = NoPlayback
    /\ sel = NoSelection
    /\ sh = NoSetting
    /\ ope = NoPhraseEnd
    /\ \E a \in SimNotes, b \in SimNotes \cup {SimNoteRef} :
           /\ b \in {a, SimNoteRef}
           /\ sim = [pc |-> "begin", note1 |-> a, note2 |-> b, finger_sim |-> 0,
                     path_ratio |-> 0, direction_sim |-> 0, similarity |-> 0]

\* note_similarity(note1, note2), lines 137-178
NoteSimilarity ==
    /\ sim.pc = "begin"
    /\ sim' = [sim EXCEPT
                 !.pc = "done",
                 !.finger_sim = FingerSim(sim.note1.fingers, sim.note2.fingers),
                 !.path_ratio = PathRatio(sim.note1.data_points, sim.note2.data_points),
                 !.direction_sim = DirectionSim(sim.note1.data_points, sim.note2.data_points),
                 !.similarity = Similarity(sim.note1, sim.note2)]
    /\ UNCHANGED <<rec_vars, main_vars, hist_vars, gen, cx, play, sel, sh, ope>>

NextSim == NoteSimilarity

SpecSim == InitSim /\ [][NextSim]_vars

-----------------------------------------------------------------------------
(* GenerativeAgent.on_phrase_end on its own, one step per statement that   *)
(* can end the call.  The recorder's pause clock is whatever the capture   *)
(* loop left; pst0 and pt0 keep the values it had when the call began,     *)
(* attempted tells that play_phrase was called, emitted that a message     *)
(* went to the sink.                                                       *)

\* pause_start_time and pause_triggered when on_phrase_end is called
PauseClocks == {None, 5000} \X BOOLEAN

\* what generate_phrase does: it raises, returns [] (no note of the ended
\* phrase, no note with data points, or every crossover raised) or returns
\* notes
GenerateOutcomes(ns, pn) ==
    {"raise"}
    \cup (IF PhraseNotes(ns, pn) = {} \/ ValidNotes(ns) = {} THEN {"empty"}
          ELSE {"notes"}
               \cup (IF \E pr \in SelectNotes(ns, ValidNotes(ns), hotness) :
                          "raise" \in CrossoverOutcomes(ns[pr[1]], ns[pr[2]])
                     THEN {"empty"} ELSE {}))

EarlyReturnResets(o, why) == [o EXCEPT !.pc = "r409", !.path = why]
\* lines 381, 390 and 394: return
EarlyReturn(o, why) == [o EXCEPT !.pc = "done", !.path = why]

InitEnd ==
    /\ InitHistory
    /\ InitMain
    /\ notes = <<>>
    /\ current_note = NoNote
    /\ last_record_time = None
    /\ phrase_num = 1
    /\ last_phrase_ended = None
    /\ hotness = 0
    /\ enable_agent = TRUE
    /\ gen = NoGeneration
    /\ cx = NoCrossover
    /\ play = NoPlayback
    /\ sel = NoSelection
    /\ sh = NoSetting
    /\ sim = NoComparison
    /\ \E inp \in GenInputs \cup {<<<<>>, 1>>}, pc \in PauseClocks :
           /\ pause_start_time = pc[1]
           /\ pause_triggered = pc[2]
           /\ ope = [pc |-> "begin", all_notes |-> inp[1], last_phrase_num |-> inp[2],
                     pst0 |-> pc[1], pt0 |-> pc[2], path |-> "none",
                     attempted |-> FALSE, emitted |-> FALSE]

OnlyEnd ==
    UNCHANGED <<notes, current_note, last_record_time, phrase_num, last_phrase_ended,
                enable_agent, hotness, main_vars, hist_vars, gen, cx, play, sel, sh, sim>>

\* lines 379-381
EndBegin ==
    /\ ope.pc = "begin"
    /\ ope' = IF ope.all_notes = <<>> THEN EarlyReturn(ope, "no notes")
              ELSE [ope EXCEPT !.pc = "generate"]
    /\ UNCHANGED <<pause_start_time, pause_triggered>>
    /\ OnlyEnd

\* lines 384-394
EndGenerate ==
    /\ ope.pc = "generate"
    /\ \E out \in GenerateOutcomes(ope.all_notes, ope.last_phrase_num) :
           ope' = IF out = "raise" THEN EarlyReturn(ope, "generate raised")
                  ELSE IF out = "empty" THEN EarlyReturn(ope, "nothing generated")
                  ELSE [ope EXCEPT !.pc = "play"]
    /\ UNCHANGED <<pause_start_time, pause_triggered>>
    /\ OnlyEnd

\* lines 399-404: play_phrase returns or raises, with or without a message
\* sent before
EndPlay ==
    /\ ope.pc = "play"
    /\ \E sent \in BOOLEAN :
           ope' = [ope EXCEPT !.pc = "r409", !.path = "played", !.attempted = TRUE,
                              !.emitted = sent]
    /\ UNCHANGED <<pause_start_time, pause_triggered>>
    /\ OnlyEnd

\* line 409
EndReset409 ==
    /\ ope.pc = "r409"
    /\ pause_start_time' = None
    /\ ope' = [ope EXCEPT !.pc = "r410"]
    /\ UNCHANGED pause_triggered
    /\ OnlyEnd

\* line 410
EndReset410 ==
    /\ ope.pc = "r410"
    /\ pause_triggered' = FALSE
    /\ ope' = [ope EXCEPT !.pc = "done"]
    /\ UNCHANGED pause_start_time
    /\ OnlyEnd

NextEnd == EndBegin \/ EndGenerate \/ EndPlay \/ EndReset409 \/ EndReset410

SpecEnd == InitEnd /\ [][NextEnd]_vars

-----------------------------------------------------------------------------
(* GenerativeAgent.crossover, one step per random decision.  Inside          *)
(* crossover a point component is a fixed-point number with ONE for 1.0; a   *)
(* pause is a time in units of 0.0001 s.  The number of components of a      *)
(* point is taken from the first parent, as the code does; the parents used  *)
(* here have two.                                                            *)

\* values drawn with np.random.random() for a blend factor or a mutated value
ValueDraws == {0, 500, 999}
\* draws of np.random.uniform(-0.3, 0.3)
VectorDraws == {-300, 299}
\* draws of sorted(random.sample(range(1, 5), random.randint(1, 4)))
FingerDraws == {{3}, {3, 4}, {1, 2, 3, 4}}
\* greatest point count a mutation draws here (the code: max_points = 400)
MaxNewPoints == 3

CrossNoteA ==
    [fingers |-> {1}, data_points |-> <<<<0, 0>>, <<500, 200>>>>,
     pause_after |-> 0, source |-> "human"]
CrossNoteB ==
    [fingers |-> {1, 2}, data_points |-> <<<<1000, 0>>, <<900, 200>>, <<900, 1000>>>>,
     pause_after |-> 10000, source |-> "ai"]
\* a note of a single point
CrossNoteC ==
    [fingers |-> {2}, data_points |-> <<<<500, 500>>>>, pause_after |-> 0,
     source |-> "human"]
CrossPairs ==
    {<<CrossNoteA, CrossNoteB>>, <<CrossNoteB, CrossNoteA>>, <<CrossNoteA, CrossNoteC>>}
CrossHotness == {0, 500, 1000}

\* np.clip(v, 0, 1)
ClipWide(v) == Max(0 - ONE, Min(2 * ONE, v))
Clip01(v) == Max(0, Min(ONE, v))

\* val1 + blend * (val2 - val1)
Interpolate(v1, v2, blend) == v1 + (blend * (v2 - v1)) \div ONE

\* _interpolate_value and _interpolate_vector, lines 44-47: the blend factors
\* drawn after the gate draw r: 0.0 or 1.0 when hotness < r, one more draw
\* otherwise
BlendsAtInverted(h, r) == IF r < h THEN {0, ONE} ELSE ValueDraws
BlendsAt(h, r) == IF h < r THEN {0, ONE} ELSE ValueDraws
Blends(h) == UNION {BlendsAt(h, r) : r \in Draws}

\* _interpolate_value(v1, v2): the gate draw and the value returned
InterpolateValue(h, v1, v2) ==
    UNION {{[gate |-> r, value |-> Interpolate(v1, v2, b)] : b \in BlendsAt(h, r)} :
              r \in Draws}

\* some draw makes _mutate() true, some draw makes it false
CanMutate(h) == \E r \in Draws : Mutates(h, r)
CanKeep(h) == \E r \in Draws : ~Mutates(h, r)

\* what the last step of crossover did: the attribute it set, whether
\* _mutate() was true, the gate draw of _interpolate_value and the value it
\* gave (None where there is none)
NoStep == [attr |-> "none", mutated |-> FALSE, gate |-> None, value |-> None]
StepOf(attr, mutated, gate, value) ==
    [attr |-> attr, mutated |-> mutated, gate |-> gate, value |-> value]

\* a scalar attribute: a mutated value, or _interpolate_value of the parents'
ScalarOutcomes(h, mutated, v1, v2) ==
    (IF CanMutate(h)
     THEN {[mutated |-> TRUE, gate |-> None, value |-> v] : v \in mutated}
     ELSE {})
    \cup (IF CanKeep(h)
          THEN {[mutated |-> FALSE, gate |-> o.gate, value |-> o.value] :
                   o \in InterpolateValue(h, v1, v2)}
          ELSE {})

\* lines 87-91: the combination of both parents' fingers; choosing from an
\* empty union raises
CombinedFingersNoFallback(c) ==
    {[raised |-> FALSE, mutated |-> FALSE, fingers |-> f] :
        f \in SUBSET (c.note1.fingers \cup c.note2.fingers)}
CombinedFingers(c) ==
    LET all == c.note1.fingers \cup c.note2.fingers
    IN IF all = {} THEN {[raised |-> TRUE, mutated |-> FALSE, fingers |-> {}]}
       ELSE {[raised |-> FALSE, mutated |-> FALSE, fingers |-> f] :
                f \in (SUBSET all) \ {{}}}

\* lines 82-93: the finger sets crossover can give
FingerOutcomes(c) ==
    (IF CanMutate(c.hotness)
     THEN {[raised |-> FALSE, mutated |-> TRUE, fingers |-> f] : f \in FingerDraws}
     ELSE {})
    \cup (IF CanKeep(c.hotness) /\ (\E r \in Draws : r < c.hotness)
          THEN CombinedFingers(c) ELSE {})
    \cup (IF CanKeep(c.hotness) /\ (\E r \in Draws : ~(r < c.hotness))
          THEN {[raised |-> FALSE, mutated |-> FALSE, fingers |-> c.note1.fingers],
                [raised |-> FALSE, mutated |-> FALSE, fingers |-> c.note2.fingers]}
          ELSE {})

\* lines 96-105: the values of parameter k of the first point
FirstValues(c, k) ==
    {[o EXCEPT !.value = IF o.mutated THEN @ ELSE Clip01(@)] :
        o \in ScalarOutcomes(c.hotness, ValueDraws,
                             c.note1.data_points[1][k], c.note2.data_points[1][k])}

\* lines 108-115: the number of points, before max(2, .)
PointCounts(c) ==
    ScalarOutcomes(c.hotness, 2..MaxNewPoints,
                   Len(c.note1.data_points), Len(c.note2.data_points))

\* lines 128-131: the place in a parent's points the vector is taken from
\* (counted from 1: the vector runs from point SourceIdx to SourceIdx + 1)
SourceIdx(pts, point_idx, num) ==
    Max(1, Min((point_idx * Len(pts)) \div num, Len(pts) - 1))
ParentVector(pts, point_idx, num, P) ==
    [k \in 1..P |-> pts[SourceIdx(pts, point_idx, num) + 1][k]
                       - pts[SourceIdx(pts, point_idx, num)][k]]

\* lines 132 and 139: a parent of a single point has no point at index 1
HasVector(pts) == Len(pts) >= 2

\* lines 123-144: the vectors to the next point; without a mutation the
\* parents' vectors are read first
Vectors(c, P) ==
    (IF CanMutate(c.hotness)
     THEN {[raised |-> FALSE, mutated |-> TRUE, vec |-> v] : v \in [1..P -> VectorDraws]}
     ELSE {})
    \cup (IF ~CanKeep(c.hotness) THEN {}
          ELSE IF ~(HasVector(c.note1.data_points) /\ HasVector(c.note2.data_points))
          THEN {[raised |-> TRUE, mutated |-> FALSE, vec |-> <<>>]}
          ELSE {[raised |-> FALSE, mutated |-> FALSE, vec |->
                    [k \in 1..P |->
                        Interpolate(ParentVector(c.note1.data_points, Len(c.points), c.count, P)[k],
                                    ParentVector(c.note2.data_points, Len(c.points), c.count, P)[k],
                                    b)]] : b \in Blends(c.hotness)})

\* lines 154-159: the pause
Pauses(c) ==
    ScalarOutcomes(c.hotness, {(r * 5 * 10000) \div ONE : r \in ValueDraws},
                   c.note1.pause_after, c.note2.pause_after)

\* line 80
ParamsPerPoint(c) == Len(c.note1.data_points[1])

InitCross ==
    /\ InitRecorder
    /\ InitHistory
    /\ InitMain
    /\ enable_agent = TRUE
    /\ gen = NoGeneration
    /\ play = NoPlayback
    /\ InitCallsIdle
    /\ \E pr \in CrossPairs, h \in CrossHotness :
           cx = [pc |-> "fingers", note1 |-> pr[1], note2 |-> pr[2], hotness |-> h,
                 fingers |-> {}, first |-> <<>>, count |-> 0, points |-> <<>>,
                 pause_after |-> 0, duration |-> 0, source |-> "none", last |-> NoStep]

OnlyCross == UNCHANGED <<rec_vars, main_vars, hist_vars, gen, play, sel, sh, sim, ope>>

\* lines 82-93
CrossFingers ==
    /\ cx.pc = "fingers"
    /\ \E o \in FingerOutcomes(cx) :
           cx' = IF o.raised THEN [cx EXCEPT !.pc = "raised"]
                 ELSE [cx EXCEPT !.pc = "first", !.fingers = o.fingers,
                                 !.last = StepOf("fingers", o.mutated, None, None)]
    /\ OnlyCross

\* lines 96-105, one parameter of the first point
CrossFirstParam ==
    /\ cx.pc = "first"
    /\ \E o \in FirstValues(cx, Len(cx.first) + 1) :
           cx' = [cx EXCEPT !.first = Append(@, o.value),
                            !.pc = IF Len(cx.first) + 1 = ParamsPerPoint(cx)
                                   THEN "count" ELSE "first",
                            !.last = StepOf("first", o.mutated, o.gate, o.value)]
    /\ OnlyCross

\* lines 108-120
CrossCount ==
    /\ cx.pc = "count"
    /\ \E o \in PointCounts(cx) :
           cx' = [cx EXCEPT !.pc = "points",
                            !.count = IF o.mutated THEN o.value ELSE Max(2, o.value),
                            !.points = <<cx.first>>,
                            !.last = StepOf("count", o.mutated, o.gate, o.value)]
    /\ OnlyCross

\* lines 122-151, one more point
CrossPoint ==
    /\ cx.pc = "points"
    /\ Len(cx.points) < cx.count
    /\ \E o \in Vectors(cx, ParamsPerPoint(cx)) :
           cx' = IF o.raised
                 THEN [cx EXCEPT !.pc = "raised",
                                 !.last = StepOf("point", o.mutated, None, None)]
                 ELSE [cx EXCEPT !.points =
                           Append(@, [k \in 1..ParamsPerPoint(cx) |->
                                         Clip01(Last(cx.points)[k] + o.vec[k])]),
                                 !.last = StepOf("point", o.mutated, None, None)]
    /\ OnlyCross

\* lines 154-175: the pause, the duration and the note returned
CrossPause ==
    /\ cx.pc = "points"
    /\ Len(cx.points) = cx.count
    /\ \E o \in Pauses(cx) :
           cx' = [cx EXCEPT !.pc = "done", !.pause_after = o.value,
                            !.duration = IF Len(cx.points) > 1
                                         THEN (Len(cx.points) - 1) * AGENT_POINT_INTERVAL
                                         ELSE AGENT_POINT_INTERVAL,
                            !.source = CrossoverSource,
                            !.last = StepOf("pause", o.mutated, o.gate, o.value)]
    /\ OnlyCross

NextCross ==
    \/ CrossFingers
    \/ CrossFirstParam
    \/ CrossCount
    \/ CrossPoint
    \/ CrossPause

SpecCross == InitCross /\ [][NextCross]_vars

-----------------------------------------------------------------------------
(* GenerativeAgent.play_phrase and play_note.  The trace holds, in order,   *)
(* what the call did: <<"primary", address, value>> for a message sent to   *)
(* osc_client, <<"mirror", address, value>> for one sent to                 *)
(* duplicate_osc_client, <<"sleep", "", seconds>> for a time.sleep.  A send *)
(* returns or raises (the sink is unavailable); a burst of five sends is    *)
(* one step, cut short at the send that raises.                             *)

\* notes handed to play_phrase: two points (with the recorder's sixth
\* component) and a pause, one point and a pause, no point at all
PlayNoteA ==
    [fingers |-> {1}, data_points |-> <<<<0, 5, 0, 0, 10, 0>>, <<5, 5, 0, 0, 10, 200>>>>,
     pause_after |-> 2500, source |-> "ai"]
PlayNoteB ==
    [fingers |-> {1, 2}, data_points |-> <<<<10, 0, 5, 0, 0>>>>,
     pause_after |-> 5000, source |-> "ai"]
PlayNoteE == [fingers |-> {3}, data_points |-> <<>>, pause_after |-> 0, source |-> "ai"]
PlayPhrases ==
    {<<>>, <<PlayNoteA>>, <<PlayNoteA, PlayNoteB>>, <<PlayNoteB, PlayNoteE, PlayNoteA>>}

EmptyNoteNoPoints ==
    [fingers |-> {}, data_points |-> <<>>, pause_after |-> 0, source |-> "ai"]
\* play_phrase line 354: the empty note that ends a phrase
EmptyNote ==
    [fingers |-> {}, data_points |-> <<<<0, 0, 0, 0, 0>>>>, pause_after |-> 0,
     source |-> "ai"]

\* ",".join(map(str, fingers)), "" for no fingers: the finger numbers in
\* order stand for the string
RECURSIVE FingersStr(_)
FingersStr(f) ==
    IF f = {} THEN <<>>
    ELSE LET lo == CHOOSE x \in f : \A y \in f : x <= y
         IN <<lo>> \o FingersStr(f \ {lo})

\* lines 455-468: the five messages of one point, to one sink
Burst(sink, pt) ==
    <<<<sink, "/x", pt[1]>>, <<sink, "/y", pt[2]>>, <<sink, "/z", pt[3]>>,
      <<sink, "/angle", pt[4]>>, <<sink, "/velocity", pt[5]>>>>

\* the note play_note is playing: a note of the phrase, then the empty note
PlayedNote(pl) == IF pl.idx <= Len(pl.phrase) THEN pl.phrase[pl.idx] ELSE EmptyNote

\* play_phrase lines 341-358: on to the next note, or to the return
AfterNote(pl) ==
    IF pl.idx > Len(pl.phrase)
    THEN [pl EXCEPT !.pc = "return"]
    ELSE [pl EXCEPT !.pc = "note", !.idx = @ + 1, !.pt = 1]

NoteRaisedUncaught(pl) == [pl EXCEPT !.pc = "done", !.result = "raised"]
\* play_phrase lines 345-349 and 355-358: the except clauses
NoteRaised(pl) == AfterNote([pl EXCEPT !.failed = @ \cup {pl.idx}])

\* what a run of sends to one sink does: all n go out (sent = n), or send
\* number sent + 1 raises
SendOutcomes(n) == 0..n

\* the sends of one step: msgs to the primary sink, then the same to the
\* mirror sink when there is one; <<np, nm>> are the numbers that went out
StepOutcomes(pl, n) ==
    {o \in SendOutcomes(n) \X SendOutcomes(n) :
        IF pl.mirror /\ o[1] = n THEN TRUE ELSE o[2] = 0}
StepRaises(pl, n, o) == o[1] < n \/ (pl.mirror /\ o[2] < n)

Renamed(msgs, sink) == [k \in DOMAIN msgs |-> <<sink, msgs[k][2], msgs[k][3]>>]

\* the play record after a step that sends msgs to both sinks with outcome o
\* (mirror_failed: the notes during which a send to the mirror sink raised)
Sent(pl, msgs, o) ==
    [pl EXCEPT !.trace = @ \o SubSeq(msgs, 1, o[1])
                           \o SubSeq(Renamed(msgs, "mirror"), 1, o[2]),
               !.emitted[pl.idx] = @ + o[1],
               !.mirror_failed = IF pl.mirror /\ o[1] = Len(msgs) /\ o[2] < Len(msgs)
                                 THEN @ \cup {pl.idx} ELSE @]

InitPlay ==
    /\ InitRecorder
    /\ InitHistory
    /\ InitMain
    /\ enable_agent = TRUE
    /\ gen = NoGeneration
    /\ cx = NoCrossover
    /\ InitCallsIdle
    /\ play \in [pc : {"begin"}, phrase : PlayPhrases, client : BOOLEAN, mirror : BOOLEAN,
                 idx : {1}, pt : {1}, trace : {<<>>}, attempts : {<<>>},
                 emitted : {[i \in 1..4 |-> 0]}, failed : {{}}, mirror_failed : {{}},
                 result : {"none"}]

OnlyPlay == UNCHANGED <<rec_vars, main_vars, hist_vars, gen, cx, sel, sh, sim, ope>>

\* play_phrase lines 332-340
PlayPhraseBegin ==
    /\ play.pc = "begin"
    /\ play' = IF play.phrase = <<>> \/ ~play.client
               THEN [play EXCEPT !.pc = "done", !.result = "returned"]
               ELSE [play EXCEPT !.pc = "note"]
    /\ OnlyPlay

\* play_note lines 425-436: no data points, or the fingers message
PlayNoteFingers ==
    /\ play.pc = "note"
    /\ LET pl == [play EXCEPT !.attempts = Append(@, play.idx)]
           msgs == <<<<"primary", "/fingers", FingersStr(PlayedNote(play).fingers)>>>>
       IN IF PlayedNote(play).data_points = <<>>
          THEN play' = AfterNote(pl)
          ELSE \E o \in StepOutcomes(play, 1) :
                   play' = IF StepRaises(play, 1, o)
                           THEN NoteRaised(Sent(pl, msgs, o))
                           ELSE [Sent(pl, msgs, o) EXCEPT !.pc = "point"]
    /\ OnlyPlay

SleepsBeforeAlways(pt) == TRUE
\* play_note lines 444-445: if i > 0 (pt counts the points from 1)
SleepsBefore(pt) == pt > 1

\* play_note lines 441-468: one point
PlayNotePoint ==
    /\ play.pc = "point"
    /\ LET pl == IF SleepsBefore(play.pt)
                 THEN [play EXCEPT !.trace = Append(@, <<"sleep", "", AGENT_POINT_INTERVAL>>)]
                 ELSE play
           msgs == Burst("primary", PlayedNote(play).data_points[play.pt])
       IN \E o \in StepOutcomes(play, 5) :
              play' = IF StepRaises(play, 5, o)
                      THEN NoteRaised(Sent(pl, msgs, o))
                      ELSE IF play.pt < Len(PlayedNote(play).data_points)
                           THEN [Sent(pl, msgs, o) EXCEPT !.pt = @ + 1]
                           ELSE [Sent(pl, msgs, o) EXCEPT !.pc = "pause"]
    /\ OnlyPlay

\* play_note lines 470-485: the pause after the note, and the return
PlayNotePause ==
    /\ play.pc = "pause"
    /\ play' = AfterNote(IF PlayedNote(play).pause_after > 0
                         THEN [play EXCEPT !.trace =
                                  Append(@, <<"sleep", "", PlayedNote(play).pause_after>>)]
                         ELSE play)
    /\ OnlyPlay

\* play_phrase lines 360-363
PlayPhraseReturn ==
    /\ play.pc = "return"
    /\ play' = [play EXCEPT !.pc = "done", !.result = "returned"]
    /\ OnlyPlay

NextPlay ==
    \/ PlayPhraseBegin
    \/ PlayNoteFingers
    \/ PlayNotePoint
    \/ PlayNotePause
    \/ PlayPhraseReturn

SpecPlay == InitPlay /\ [][NextPlay]_vars

-----------------------------------------------------------------------------
(* Claims *)

\* C1: within one silence episode (pause calls with no start_note in
\* between) end_phrase is triggered at most once, however long the pause
\* calls go on.
C1_ClosureOncePerSilence == episode_closures <= 1

\* the workers that were launched and have not finished on_phrase_end
ActiveWorkers == {w \in DOMAIN workers : workers[w].pc # "finally"}

\* C2: at most one playback worker is active at a time: no second worker
\* thread exists while an earlier one has not finished on_phrase_end.
C2_AtMostOneWorker == Cardinality(ActiveWorkers) <= 1

\* C3: a phrase-end signalled while is-playing was true never launches a
\* worker, not even after the current worker has finished.
C3_BusyPhraseEndDropped == \A w \in DOMAIN workers : ~workers[w].stale

\* C4: between the launch of a worker and the next start_note no pause()
\* call leads to a phrase closure.
C4_NoClosureBeforeNextGesture == ~closed_awaiting

\* C5: pause() on the capture thread never computes the elapsed pause from
\* an unset pause_start_time: the capture loop never dies of it.
C5_CaptureLoopAlive == mainpc # "crashed"

\* C6 as stated: a cycle selects its parents only among the notes that were
\* in the list at the phrase-end that triggered it.
C6_SnapshotAtPhraseEnd ==
    \A w \in DOMAIN workers : workers[w].parents \subseteq 1..workers[w].pe_len

\* C6 as amended: a cycle selects its parents only among the notes that were
\* in the list when its generate_phrase built valid_notes; that list holds
\* every note present at the triggering phrase-end and maybe later ones.
C6_SnapshotAtGeneration ==
    \A w \in DOMAIN workers :
        workers[w].valid # None =>
            /\ workers[w].parents \subseteq 1..workers[w].valid
            /\ workers[w].pe_len <= workers[w].valid
            /\ workers[w].valid <= Len(notes)

\* a cycle that selected as a parent a note appended after its phrase-end
C6_Witness ==
    \E w \in DOMAIN workers :
        /\ workers[w].valid # None
        /\ \E i \in workers[w].parents : i > workers[w].pe_len

\* C7: in the scenario, once the pause calls have gone 3.0 s past the first
\* one, there is exactly one saved note, of duration 0.49 s, source human,
\* phrase 1 and pause_after 3.0 s, and the phrase-end has fired exactly once.
C7_Scenario ==
    (calls > 50 /\ now >= 5000 + PAUSE_PHRASE_THRESHOLD) =>
        /\ Len(notes) = 1
        /\ notes[1].duration = 4900
        /\ notes[1].source = "human"
        /\ notes[1].phrase = 1
        /\ notes[1].pause_after = LAST_NOTE_PAUSE
        /\ closures = 1

\* the notes a closure step newly tags: those without a phrase number before
\* it, the note the same pause() call saved included
NewlyTagged == {i \in DOMAIN notes' : i \notin DOMAIN notes \/ notes[i].phrase = None}

SealedLo == CHOOSE i \in sealed : \A j \in sealed : i <= j
SealedHi == CHOOSE i \in sealed : \A j \in sealed : i >= j

\* C10: the cohesion computed at a closure is the mean similarity of the
\* consecutive pairs of the notes that closure tagged, 0 below two notes.
C10_CohesionOverSealedPhrase ==
    closures > 0 =>
        phrase_cohesion =
            IF Cardinality(sealed) < 2 THEN 0
            ELSE MeanSimilarity(notes, SealedLo, SealedHi)

\* note i is the last note of its phrase
PhraseLast(i) ==
    /\ notes[i].phrase # None
    /\ (i = Len(notes) \/ notes[i + 1].phrase # notes[i].phrase)

\* C11: the last note of every sealed phrase has pause_after 3.0 s: the
\* closure sets it and no later start_note back-fill (or finalize) overwrites
\* it.
C11_SealedPauseKept ==
    \A i \in DOMAIN notes : PhraseLast(i) => notes[i].pause_after = LAST_NOTE_PAUSE

\* a start_note right after a closure: its back-fill looked at the sealed
\* phrase's last note and left the 3.0 s in place
C11_Witness ==
    /\ closures >= 1
    /\ last_call = "start_note"
    /\ notes # <<>>
    /\ Last(notes).phrase # None
    /\ Last(notes).pause_after = LAST_NOTE_PAUSE

\* a call of start_note, pause or finalize made while a note is open
ClosingCall ==
    /\ calls' = calls + 1
    /\ last_call' \in {"start_note", "pause", "finalize"}
    /\ current_note # NoNote

\* C12: when start_note, pause or finalize closes the open note, the note is
\* appended to notes iff its duration (last sample timestamp minus start
\* timestamp) is at least 0.1 s; otherwise notes is unchanged; either way
\* the note is no longer open.
C12_MinimumDuration ==
    [][ClosingCall =>
          /\ IF Last(current_note.timestamps) - current_note.start_time >= MIN_NOTE_DURATION
             THEN /\ Len(notes') = Len(notes) + 1
                  /\ SubSeq(notes', 1, Len(notes)) = notes
                  /\ Last(notes').start_time = current_note.start_time
                  /\ Last(notes').fingers = current_note.fingers
                  /\ Last(notes').data_points = current_note.data_points
                  /\ Last(notes').timestamps = current_note.timestamps
                  /\ Last(notes').duration =
                         Last(current_note.timestamps) - current_note.start_time
             ELSE notes' = notes
          /\ IF last_call' = "start_note"
             THEN current_note'.timestamps = <<now'>>
             ELSE current_note' = NoNote]_vars

\* finalize closed the note that was open and appended it: no pause was
\* called since the note started, and the note's last sample is the last
\* one recorded
C12_Witness ==
    /\ last_call = "finalize"
    /\ closures = 0
    /\ pause_start_time = None
    /\ Len(notes) = 1
    /\ last_record_time = Last(notes[1].timestamps)
    /\ now = last_record_time + 1

\* a call of record_point
RecordCall == calls' = calls + 1 /\ last_call' = "record_point"

\* C13: record_point appends a sample iff a note is open and the timestamp
\* is at least POINT_INTERVAL after the last recorded one, so consecutive
\* stored samples are at least the interval apart; a rejected call leaves
\* the recorder as it was.
C13_RecordInterval ==
    [][RecordCall =>
          IF current_note # NoNote /\ now' - last_record_time >= POINT_INTERVAL
          THEN /\ current_note'.timestamps = Append(current_note.timestamps, now')
               /\ Len(current_note'.data_points) = Len(current_note.data_points) + 1
               /\ last_record_time' = now'
               /\ \A k \in 1..(Len(current_note'.timestamps) - 1) :
                      current_note'.timestamps[k + 1] - current_note'.timestamps[k]
                          >= POINT_INTERVAL
          ELSE UNCHANGED rec_vars]_vars

\* a record_point that came too early for the open note, which holds an
\* earlier accepted sample
C13_Witness ==
    /\ last_call = "record_point"
    /\ current_note # NoNote
    /\ Len(current_note.timestamps) >= 2
    /\ now = last_record_time + 1

\* the note holds samples, the first at relative time 0, each with the
\* relative time its timestamp gives
WellFormed(n) ==
    /\ n.data_points # <<>>
    /\ Len(n.data_points) = Len(n.timestamps)
    /\ n.data_points[1][6] = 0
    /\ \A k \in DOMAIN n.data_points : n.data_points[k][6] = n.timestamps[k] - n.start_time

\* C14: the open note and every saved note have a non-empty data_points, a
\* first sample of relative time 0, and relative_time = timestamp -
\* start_time for every sample.
C14_NoteInvariant ==
    /\ current_note # NoNote => WellFormed(current_note)
    /\ \A i \in DOMAIN notes : WellFormed(notes[i])

\* a saved note of three samples and an open note of two
C14_Witness ==
    /\ \E i \in DOMAIN notes : Len(notes[i].data_points) >= 3
    /\ current_note # NoNote
    /\ Len(current_note.data_points) >= 2

\* a call of start_note
StartCall == calls' = calls + 1 /\ last_call' = "start_note"

\* the note at place i of the list after a start_note, as it was before the
\* call: a saved note, or the open note the call saves
BeforeStart(i) == IF i \in DOMAIN notes THEN notes[i] ELSE current_note

\* C15: start_note sets the pause_after of the most recently saved note, if
\* it is unset (0), to the gap between that note's last sample and the new
\* note's start, never negative; a pause_after already set is left alone and
\* no other saved note is modified.
C15_StartBackFill ==
    [][StartCall =>
          \A i \in DOMAIN notes' :
              IF i = Len(notes') /\ BeforeStart(i).pause_after \in {0, None}
              THEN /\ notes'[i].pause_after =
                          Max(0, now' - Last(BeforeStart(i).timestamps))
                   /\ notes'[i].pause_after >= 0
              ELSE notes'[i] = notes[i]]_vars

\* a start_note has just given the note saved before it its gap, while the
\* note before that one keeps the sealed 3.0 s
C15_Witness ==
    /\ last_call = "start_note"
    /\ Len(notes) >= 2
    /\ Last(notes).pause_after = now - Last(Last(notes).timestamps)
    /\ notes[Len(notes) - 1].pause_after = LAST_NOTE_PAUSE

\* the messages of the trace that went to the primary sink
IsPrimary(m) == m[1] = "primary"
Primary(trace) == SelectSeq(trace, IsPrimary)

ParamNames == <<"/x", "/y", "/z", "/angle", "/velocity">>

\* what a note of k >= 1 points must send: one /fingers message, then for
\* each point one message per parameter; a note without points sends nothing
ExpectedNote(n) ==
    IF n.data_points = <<>> THEN <<>>
    ELSE [m \in 1..(1 + 5 * Len(n.data_points)) |->
             IF m = 1 THEN <<"primary", "/fingers", FingersStr(n.fingers)>>
             ELSE <<"primary", ParamNames[((m - 2) % 5) + 1],
                    n.data_points[((m - 2) \div 5) + 1][((m - 2) % 5) + 1]>>]

\* the end of a phrase: an empty fingers string and one burst of zeros
ExpectedEnd ==
    <<<<"primary", "/fingers", <<>>>>, <<"primary", "/x", 0>>, <<"primary", "/y", 0>>,
      <<"primary", "/z", 0>>, <<"primary", "/angle", 0>>, <<"primary", "/velocity", 0>>>>

RECURSIVE ExpectedPhrase(_)
ExpectedPhrase(ns) ==
    IF ns = <<>> THEN ExpectedEnd ELSE ExpectedNote(Head(ns)) \o ExpectedPhrase(Tail(ns))

\* C19: when no send fails, play_phrase over a non-empty list sends to the
\* primary sink, for each note in list order, exactly one /fingers message
\* and then one burst (/x, /y, /z, /angle, /velocity) per data point, and
\* after the last note one empty fingers message and one burst of zeros.
C19_EmissionCount ==
    (play.pc = "done" /\ play.phrase # <<>> /\ play.client /\ play.failed = {}) =>
        Primary(play.trace) = ExpectedPhrase(play.phrase)

\* a phrase of two notes played to the end with the mirror sink on
C19_Witness ==
    /\ play.pc = "done"
    /\ play.failed = {}
    /\ play.mirror
    /\ Len(play.phrase) = 2
    /\ Len(Primary(play.trace)) = 23

\* the messages the primary sink got of notes i.. of the phrase and of the
\* empty note: of each note the first emitted[i] messages it must send
RECURSIVE SentFrom(_, _)
SentFrom(pl, i) ==
    IF i > Len(pl.phrase) THEN SubSeq(ExpectedEnd, 1, pl.emitted[i])
    ELSE SubSeq(ExpectedNote(pl.phrase[i]), 1, pl.emitted[i]) \o SentFrom(pl, i + 1)

\* C20: play_phrase never raises; when playing a note raises, nothing more
\* of that note is sent, every later note is still played, in order and in
\* full unless it fails itself, the empty note is attempted, and play_phrase
\* returns.
C20_PlaybackSurvives ==
    /\ play.pc # "idle" => play.result # "raised"
    /\ (play.pc = "done" /\ play.phrase # <<>> /\ play.client) =>
           /\ play.result = "returned"
           /\ play.attempts = [i \in 1..(Len(play.phrase) + 1) |-> i]
           /\ Primary(play.trace) = SentFrom(play, 1)
           /\ \A i \in 1..Len(play.phrase) :
                  i \notin play.failed =>
                      play.emitted[i] = Len(ExpectedNote(play.phrase[i]))
           /\ Len(play.phrase) + 1 \notin play.failed =>
                  play.emitted[Len(play.phrase) + 1] = Len(ExpectedEnd)

\* the first note failed half way, the third was played in full after it
C20_Witness ==
    /\ play.pc = "done"
    /\ play.result = "returned"
    /\ Len(play.phrase) = 3
    /\ play.failed = {1}
    /\ play.emitted[1] = 1
    /\ play.emitted[3] = 11

\* C17: for a just-ended phrase of 4 human notes and hotness 0,
\* generate_phrase returns between 1 and 6 notes, each with source "ai",
\* whatever the draws.
C17_ScenarioFourNotes ==
    (gen.pc = "done" /\ gen.all_notes = FourHumanNotes /\ gen.hotness = 0) =>
        /\ Len(gen.generated) \in 1..6
        /\ \A k \in DOMAIN gen.generated : gen.generated[k].source = "ai"

\* the scenario returned the most notes it can, 5
C17_Witness ==
    /\ gen.pc = "done"
    /\ gen.all_notes = FourHumanNotes
    /\ gen.hotness = 0
    /\ Len(gen.generated) = 5

\* generate_phrase ran its loop to the end for a phrase of n >= 1 notes
Generated == gen.pc = "done" /\ gen.n > 0 /\ ValidNotes(gen.all_notes) # {}

\* C18 as stated: the number of selection+crossover attempts is
\* max(1, k) for an integer k nearest to n + u * n / 2.
C18_TargetCountRounded ==
    Generated =>
        \E k \in 0..(2 * gen.n) :
            /\ 2 * ONE * k - (2 * ONE * gen.n + gen.u * gen.n) \in (-ONE)..ONE
            /\ gen.attempts = Max(1, k)

\* C18 as amended: the number of selection+crossover attempts is
\* max(1, k) for the greatest integer k <= n + u * n / 2 (int() truncates),
\* n being the number of notes tagged with the last phrase number.
C18_TargetCountTruncated ==
    Generated =>
        /\ gen.n = Cardinality({i \in DOMAIN gen.all_notes :
                                    gen.all_notes[i].phrase = gen.last_phrase_num})
        /\ \E k \in 0..(2 * gen.n) :
               /\ 2 * ONE * k <= 2 * ONE * gen.n + gen.u * gen.n
               /\ 2 * ONE * gen.n + gen.u * gen.n < 2 * ONE * (k + 1)
               /\ gen.attempts = Max(1, k)

\* n = 4 and u = -0.15: n + u * n / 2 = 3.7, three attempts were made
C18_Witness ==
    /\ Generated
    /\ gen.n = 4
    /\ gen.u = -150
    /\ gen.attempts = 3

\* the parents of a crossover each have a finger and at least two points
ValidParents(c) ==
    /\ c.note1.fingers # {} /\ c.note2.fingers # {}
    /\ Len(c.note1.data_points) >= 2 /\ Len(c.note2.data_points) >= 2

\* C16: for valid parents (fingers a non-empty subset of 1..4, at least two
\* points, components in [0, 1], pause_after >= 0), any hotness and any draws,
\* crossover returns a note with fingers within 1..4, data_points non-empty,
\* every component in [0, 1], pause_after >= 0 and a duration of at least the
\* sampling interval.
C16_CrossoverValid ==
    (cx.pc # "idle" /\ ValidParents(cx)) =>
    /\ cx.pc # "raised"
    /\ cx.pc = "done" =>
           /\ cx.fingers \subseteq 1..4
           /\ cx.points # <<>>
           /\ \A i \in DOMAIN cx.points :
                  \A k \in DOMAIN cx.points[i] : cx.points[i][k] \in 0..ONE
           /\ cx.pause_after >= 0
           /\ cx.duration >= AGENT_POINT_INTERVAL

\* a returned note of three points with mutated fingers, whose second point
\* was clipped at both ends of [0, 1]
C16_Witness ==
    /\ cx.pc = "done"
    /\ cx.fingers = {3, 4}
    /\ cx.count = 3
    /\ cx.points[1] = <<0, 999>>
    /\ cx.points[2] = <<0, ONE>>

\* C21: a send to the mirror sink that fails during play_note is not
\* propagated: play_note completes normally, and the fingers message and
\* every data point of that note still reach the primary sink.
C21_MirrorFailureContained ==
    \A i \in play.mirror_failed :
        /\ i \notin play.failed
        /\ (play.idx > i \/ play.pc \in {"return", "done"}) =>
               play.emitted[i] = IF i > Len(play.phrase) THEN Len(ExpectedEnd)
                                 ELSE Len(ExpectedNote(play.phrase[i]))

\* C22: crossover of two notes of which one has exactly one data point
\* returns a note instead of raising.
C22_OnePointParentReturns ==
    (cx.pc # "idle"
     /\ (Len(cx.note1.data_points) = 1 \/ Len(cx.note2.data_points) = 1)) =>
        cx.pc # "raised"

\* the notes of source src in the list handed to select_notes
SourcePool(src) == {i \in DOMAIN sel.all_notes : sel.all_notes[i].source = src}

\* the note select_single_note returned is a member of the list, of the
\* source it asked for unless the list has no note of that source
FromPool(i, want) ==
    /\ i \in DOMAIN sel.all_notes
    /\ SourcePool(want) # {} => i \in SourcePool(want)

\* C23: select_notes returns None for no notes and the note paired with
\* itself for one note; for two or more notes it returns a pair of members of
\* the list, each of the source asked for (human or ai) or, when the list has
\* no note of that source, any member of the list.
C23_SelectDegenerate ==
    sel.pc = "done" =>
        /\ Len(sel.all_notes) = 0 => sel.result = <<>>
        /\ Len(sel.all_notes) = 1 => sel.result = <<1, 1>>
        /\ Len(sel.all_notes) >= 2 =>
               /\ Len(sel.result) = 2
               /\ FromPool(sel.result[1], sel.want1)
               /\ FromPool(sel.result[2], sel.want2)

\* one note: the pair of that note with itself
C23_Witness ==
    /\ sel.pc = "done"
    /\ Len(sel.all_notes) = 1
    /\ sel.result = <<1, 1>>

\* the turns of the loop of generate_phrase that ended as out
Turns(out) == {k \in DOMAIN gen.outcomes : gen.outcomes[k] = out}

\* C24: a turn of the loop of generate_phrase whose crossover raises is
\* skipped and the remaining turns still run: unless a selection gave no
\* pair, the loop makes all its turns and generate_phrase returns exactly one
\* note for each turn whose crossover returned; a selection without a pair
\* is the last turn.
C24_PartialGeneration ==
    Generated =>
        /\ Len(gen.outcomes) = gen.attempts
        /\ Len(gen.generated) = Cardinality(Turns("note"))
        /\ Turns("no pair") = {} => gen.attempts = gen.target
        /\ \A k \in Turns("no pair") : k = Len(gen.outcomes)

\* the crossover of the first of two turns raised, the second returned a note
C24_Witness ==
    /\ Generated
    /\ gen.outcomes = <<"raise", "note">>
    /\ Len(gen.generated) = 1

\* C25: after any sequence of set_hotness calls the agent's hotness is in
\* [0, 1]; the call stores a value in [0, 1] unchanged, 0 for a value below
\* 0 and 1 for a value above 1; the value end_phrase derives from a
\* cohesion is handed to the same call.
C25_HotnessClamped ==
    sh.pc # "idle" =>
        /\ hotness \in 0..ONE
        /\ sh.pc = "set" =>
               /\ sh.arg \in 0..ONE => hotness = sh.arg
               /\ sh.arg < 0 => hotness = 0
               /\ sh.arg > ONE => hotness = ONE

\* after other calls, end_phrase set the hotness of cohesion 0.65: 0.3
C25_Witness ==
    /\ sh.pc = "set"
    /\ sh.calls >= 2
    /\ sh.caller = "end_phrase"
    /\ sh.cohesion = 650
    /\ hotness = 300

\* a note with a finger, at least 2 data points and a path of positive length
NonDegenerate(n) ==
    /\ n.fingers # {}
    /\ Len(n.data_points) >= 2
    /\ PathLength(n.data_points) > 0

\* C26: note_similarity(A, A) = 1.0 for every non-degenerate note A,
\* including a note whose trajectory ends at the point where it started.
C26_SelfSimilarity ==
    (sim.pc = "done" /\ sim.note1 = sim.note2 /\ NonDegenerate(sim.note1)) =>
        sim.similarity = ONE

\* the parents' values of the scalar attribute the last step of crossover set
ParentValues(c) ==
    IF c.last.attr = "first"
    THEN {c.note1.data_points[1][Len(c.first)], c.note2.data_points[1][Len(c.first)]}
    ELSE IF c.last.attr = "count"
    THEN {Len(c.note1.data_points), Len(c.note2.data_points)}
    ELSE {c.note1.pause_after, c.note2.pause_after}

\* crossover at hotness 0 has just set a scalar attribute without mutation
ClonedScalar ==
    /\ cx.pc # "idle"
    /\ cx.hotness = 0
    /\ cx.last.attr \in {"first", "count", "pause"}
    /\ ~cx.last.mutated

\* C27 as stated: with hotness 0, every scalar attribute set without
\* mutation (a first-point parameter, the point count before the floor of 2,
\* pause_after) equals one parent's value, never a blend in between.
C27_CloningAtZero == ClonedScalar => cx.last.value \in ParentValues(cx)

\* C27 as amended: with hotness 0, every scalar attribute set without
\* mutation equals one parent's value when the gate draw r of
\* _interpolate_value is above 0 (hotness < r); the draw r = 0.0 gives a
\* blend drawn from [0, 1).
C27_CloningAtZeroGated ==
    (ClonedScalar /\ cx.last.gate > 0) => cx.last.value \in ParentValues(cx)

\* at hotness 0 the pause was taken from the second parent after a gate
\* draw of 0.5
C27_Witness ==
    /\ ClonedScalar
    /\ cx.pc = "done"
    /\ cx.last.gate = 500
    /\ cx.note1 = CrossNoteA
    /\ cx.note2 = CrossNoteB
    /\ cx.pause_after = CrossNoteB.pause_after

\* C28: when the mutation gate does not fire, the offspring's fingers are
\* one parent's full finger set or a non-empty subset of the union of both
\* parents' sets: no finger that neither parent has, and not empty when both
\* parents have fingers.
C28_FingersFromParents ==
    (cx.pc # "idle" /\ cx.last.attr = "fingers" /\ ~cx.last.mutated) =>
        LET all == cx.note1.fingers \cup cx.note2.fingers
        IN /\ \/ cx.fingers \in {cx.note1.fingers, cx.note2.fingers}
              \/ cx.fingers # {} /\ cx.fingers \subseteq all
           /\ cx.fingers \subseteq all
           /\ (cx.note1.fingers # {} /\ cx.note2.fingers # {}) => cx.fingers # {}

\* the combination kept finger 2 alone, which is neither parent's set
C28_Witness ==
    /\ cx.pc = "first"
    /\ cx.last.attr = "fingers"
    /\ ~cx.last.mutated
    /\ cx.note1.fingers = {1, 2}
    /\ cx.note2.fingers = {1}
    /\ cx.fingers = {2}

\* what play_note does for points i.. of note n, mirror sends left out: a
\* sleep of one sampling interval before every point but the first, then the
\* point's five messages
RECURSIVE TimedPoints(_, _)
TimedPoints(n, i) ==
    IF i > Len(n.data_points) THEN <<>>
    ELSE (IF i > 1 THEN <<<<"sleep", "", AGENT_POINT_INTERVAL>>>> ELSE <<>>)
         \o [k \in 1..5 |-> <<"primary", ParamNames[k], n.data_points[i][k]>>]
         \o TimedPoints(n, i + 1)

\* the /fingers message, the points, then the sleep of pause_after
TimedNote(n) ==
    IF n.data_points = <<>> THEN <<>>
    ELSE <<<<"primary", "/fingers", FingersStr(n.fingers)>>>>
         \o TimedPoints(n, 1)
         \o (IF n.pause_after > 0 THEN <<<<"sleep", "", n.pause_after>>>> ELSE <<>>)

RECURSIVE TimedPhrase(_)
TimedPhrase(ns) ==
    IF ns = <<>> THEN ExpectedEnd ELSE TimedNote(Head(ns)) \o TimedPhrase(Tail(ns))

NotMirror(m) == m[1] # "mirror"
IsSleep(m) == m[1] = "sleep"

\* C29: play_note emits /fingers before any parameter message, does not
\* sleep before the first point, sleeps one sampling interval between
\* consecutive points and sleeps pause_after after the last point's messages,
\* before it returns: at every moment of a playback without a failed send,
\* the sends to the primary sink and the sleeps done so far are the beginning
\* of that sequence, and all of it at the end.
C29_PlayNoteOrdering ==
    (play.pc # "idle" /\ play.phrase # <<>> /\ play.client /\ play.failed = {}) =>
        LET done == SelectSeq(play.trace, NotMirror)
            all == TimedPhrase(play.phrase)
        IN /\ Len(done) <= Len(all)
           /\ done = SubSeq(all, 1, Len(done))
           /\ play.pc = "done" => done = all

\* a note of two points and a note of one were played: one interval between
\* the two points, then each note's pause
C29_Witness ==
    /\ play.pc = "done"
    /\ play.failed = {}
    /\ play.phrase = <<PlayNoteA, PlayNoteB>>
    /\ SelectSeq(play.trace, IsSleep) =
           <<<<"sleep", "", AGENT_POINT_INTERVAL>>, <<"sleep", "", PlayNoteA.pause_after>>,
             <<"sleep", "", PlayNoteB.pause_after>>>>

\* the number of worker threads that have run to their end
Finished == launched - Len(workers)

\* C30: every worker thread that is started runs to its end, and the
\* is-playing flag, once true, eventually becomes false again.
C30_WorkerCompletes ==
    /\ \A k \in 1..MaxLaunches : (launched >= k) ~> (Finished >= k)
    /\ agent_is_playing ~> ~agent_is_playing

\* C31: every note of the recorder's notes list has at least 2 data points
\* and a stamped duration of at least 0.1 s, so that crossover finds a step
\* from one point to the next in it.
C31_SavedNotesUsable ==
    \A i \in DOMAIN notes :
        /\ Len(notes[i].data_points) >= 2
        /\ notes[i].duration >= MIN_NOTE_DURATION
        /\ notes[i].duration = Last(notes[i].timestamps) - notes[i].start_time
        /\ HasVector(notes[i].data_points)

\* a saved note of exactly two points, the second 0.1 s after the first
C31_Witness ==
    /\ notes # <<>>
    /\ Len(notes[1].data_points) = 2
    /\ notes[1].duration = MIN_NOTE_DURATION

\* C32: along the notes list the phrase numbers of the tagged notes never
\* decrease, no tagged note follows an untagged one, and every phrase number
\* from 1 to phrase_num - 1 is carried by some note.
C32_PhrasesContiguous ==
    /\ \A i, j \in DOMAIN notes :
           (i < j /\ notes[i].phrase # None /\ notes[j].phrase # None) =>
               notes[i].phrase <= notes[j].phrase
    /\ \A i, j \in DOMAIN notes :
           (i < j /\ notes[i].phrase = None) => notes[j].phrase = None
    /\ \A p \in 1..(phrase_num - 1) : \E i \in DOMAIN notes : notes[i].phrase = p
    /\ \A i \in DOMAIN notes : notes[i].phrase # None => notes[i].phrase \in 1..(phrase_num - 1)

\* a note of phrase 1 followed by a saved note that no phrase end has tagged
C32_Witness ==
    /\ phrase_num = 2
    /\ Len(notes) = 2
    /\ notes[1].phrase = 1
    /\ notes[2].phrase = None

C34_EarlyReturnChangesNothing ==
    ope.pc # "idle" =>
        /\ (ope.pc = "done" /\ ope.path # "played") =>
               /\ ~ope.emitted
               /\ ~ope.attempted
               /\ pause_start_time = ope.pst0
               /\ pause_triggered = ope.pt0
        /\ (pause_start_time # ope.pst0 \/ pause_triggered # ope.pt0) => ope.attempted
        /\ ope.emitted => ope.attempted

\* generate_phrase returned no note for a list with notes while the pause
\* clock was running and triggered: the call returned and the clock is as it
\* was
C34_Witness ==
    /\ ope.pc = "done"
    /\ ope.path = "nothing generated"
    /\ ope.all_notes # <<>>
    /\ pause_start_time = 5000
    /\ pause_triggered

====
